---- MODULE Spec2Model ----
(***************************************************************************)
(* A model of the koolie command-line host (src/src/cli/koolie.ts) and of  *)
(* the entry-point resolver of its build-docs sub-command                  *)
(* (koolie-SubCmdBuildDocs.ts, held in src/unnamed/part_000).              *)
(*                                                                         *)
(* The host is single-threaded: every action below is one stretch of code  *)
(* between two awaits, the awaited operation's outcome being chosen by the *)
(* environment (the filesystem, the module loader, yargs, the runner).     *)
(***************************************************************************)
EXTENDS Integers, Sequences, FiniteSets, TLC

\* ------------------------------------------------------------------ bounds
\* the most candidate files readdir's filtered listing holds
MaxFiles == 2
\* the longest array a module exports as its default export
MaxExports == 2
\* the largest exit status a runner resolves with
MaxExit == 2
\* the most tokens of a wrapper's text
MaxContents == 3
\* the most items klaw yields beneath the source root
MaxItems == 4

\* --------------------------------------------------------------- universes
\* SubCommand instances that modules may export, and a value that is none
SubCommandInstances == {"sc1", "sc2"}
OtherValues == {"plainObject"}
ExportValues == SubCommandInstances \cup OtherValues
\* what name() may return
Names == {"build-dist", "build-docs"}
\* the first positional token of the command line
Tokens == Names \cup {"frobnicate"}
\* the text of a wrapper, as tokens: "..", "\", a run of path characters, ".js"
WrapperTokens == {"..", "\\", "p", ".js"}

SeqsUpTo(S, n) == UNION {[1..k -> S] : k \in 0..n}

VARIABLES
    pc,                 \* where main() is
    scName,             \* name() of every SubCommand instance
    probes,             \* what stat() did for the probes of koolie.ts:33
    koolieBinDir,       \* koolie.ts:18,34
    subCommandFiles,    \* koolie.ts:39
    idx,                \* koolie.ts:52 (0-based, as in the code)
    filename,           \* the file importSubCommand / importSubCommandSourceFile is on
    contents,           \* koolie.ts:122
    match,              \* koolie.ts:128
    defaultExport,      \* koolie.ts:150
    subCommands,        \* koolie.ts:51
    subCommandRunners,  \* koolie.ts:64
    subCommand,         \* koolie.ts:73
    result,             \* what the awaited runner did (koolie.ts:79)
    exitCode,           \* the argument of process.exit, once pc = "exited"
    fault,              \* the exception raised, if any
    imports,            \* every file handed to import(), in order
    invoked             \* every instance whose run() was called, in order

hostVars == <<pc, scName, probes, koolieBinDir, subCommandFiles, idx, filename, contents,
              match, defaultExport, subCommands, subCommandRunners, subCommand,
              result, exitCode, fault, imports, invoked>>

VARIABLES
    dpc,                \* where the build-docs runner's run() is
    entryPoint,         \* args.entryPoint, part_000:121
    src,                \* args.src, part_000:200
    srcDir,             \* what stat() did on 'src', part_000:202
    srcRoot,            \* part_000:200, as the absolute path klaw resolves it to
    preferIndex,        \* part_000:215
    inclusions,         \* part_000:245
    exclusions,         \* part_000:245
    walked,             \* the items klaw has yielded (Utils.ts:109)
    fileList,           \* part_000:252, findFiles' matching (Utils.ts:108)
    srcFiles,           \* part_000:210
    entryPoints,        \* part_000:121,124
    entryPointArgs,     \* part_000:131
    steps,              \* what became of the HTML and of the Markdown step
    generated,          \* every call of executeCommand, in order
    reported,           \* console.error was called, part_000:126
    rc                  \* what run() settled with

docsVars == <<dpc, entryPoint, src, srcDir, srcRoot, preferIndex, inclusions,
              exclusions, walked, fileList, srcFiles, entryPoints,
              entryPointArgs, steps, generated, reported, rc>>

vars == <<hostVars, docsVars>>

\* ---------------------------------------------------------------- values
NoMatch == [found |-> FALSE, capture |-> <<>>]
NoFile == [kind |-> "none", at |-> 0, path |-> <<>>]
Undefined == [kind |-> "undefined", elems |-> <<>>]
NoResult == [kind |-> "none", code |-> 0]
NoRunners == [n \in {} |-> "sc1"]
NoSrc == [given |-> FALSE, root |-> <<>>]
NoSteps == [html |-> "pending", markdown |-> "pending"]
NoStatus == [kind |-> "none", code |-> 0]

\* what a module's default export may be: absent, one value, an array of values
DefaultExports ==
    {Undefined}
    \cup {[kind |-> "single", elems |-> <<v>>] : v \in ExportValues}
    \cup {[kind |-> "array", elems |-> e] : e \in SeqsUpTo(ExportValues, MaxExports)}

\* -------------------------------------------------------- process.exit
ExitProcess(code) ==
    /\ pc' = "exited"
    /\ exitCode' = code

\* the catch blocks: each reports and calls process.exit(1)
CatchTopLevel == ExitProcess(1)
CatchReaddir == ExitProcess(1)
CatchImportSubCommand == ExitProcess(1)
\* (a catch block that swallows the read error: the text stays empty)
CatchWindowsWrapperSwallow == pc' = "exec" /\ UNCHANGED exitCode
CatchWindowsWrapper == ExitProcess(1)
\* (a catch block that swallows the import error and goes on to the push)
CatchSourceFileSwallow == pc' = "push" /\ UNCHANGED exitCode
CatchSourceFile == ExitProcess(1)
CatchDispatch == ExitProcess(1)

\* ------------------------------------------------------------- Utils.ts
\* what stat() may do on a path (Utils.ts exists, lines 52-63)
StatOutcomes == {"file", "directory", "ENOENT", "EACCES"}

\* exists(): the stats, null on ENOENT, and any other error is thrown again
StatThrows(outcome) == outcome \notin {"file", "directory", "ENOENT"}

\* (a probe that any entry of the name satisfies, whatever its type)
fileExistsAny(outcome) == outcome # "ENOENT"

\* fileExists(): stats === null ? false : stats.isFile()
fileExists(outcome) == IF outcome = "ENOENT" THEN FALSE ELSE outcome = "file"

\* (a probe that any entry of the name satisfies, as pathExists does)
dirExistsAny(outcome) == outcome # "ENOENT"

\* dirExists(): stats === null ? false : stats.isDirectory()
dirExists(outcome) == IF outcome = "ENOENT" THEN FALSE ELSE outcome = "directory"

\* executeCommand(), Utils.ts lines 222-233: the child closes with a status,
\* or it cannot be started
ExecuteCommandOutcomes ==
    {[kind |-> "close", code |-> n] : n \in 0..MaxExit}
    \cup {[kind |-> "error", code |-> 0]}

\* ------------------------------------------------ the wrapper's pattern
Min(S) == CHOOSE x \in S : \A y \in S : x <= y
Max(S) == CHOOSE x \in S : \A y \in S : x >= y

\* (the pattern without its "..\" part: /(.*\.js)/)
RegExpExecAnyJs(c) ==
    LET ends == {k \in 1..Len(c) : c[k] = ".js"}
    IN  IF ends = {}
        THEN NoMatch
        ELSE [found |-> TRUE, capture |-> SubSeq(c, 1, Max(ends))]

\* /\.\.\\(.*\.js)/g.exec(contents): the leftmost "..\" that a ".js" follows,
\* and, the star being greedy, everything from there to the last ".js"
RegExpExec(c) ==
    LET starts == {i \in 1..(Len(c) - 1) :
                      /\ c[i] = ".."
                      /\ c[i + 1] = "\\"
                      /\ \E j \in (i + 2)..Len(c) : c[j] = ".js"}
    IN  IF starts = {}
        THEN NoMatch
        ELSE LET i == Min(starts)
                 j == Max({k \in (i + 2)..Len(c) : c[k] = ".js"})
             IN  [found |-> TRUE, capture |-> SubSeq(c, i + 2, j)]

\* path.join(process.cwd(), 'node_modules', match[1])
JsSourceFile(m) == [kind |-> "node_modules", at |-> idx, path |-> m.capture]

\* what the history of imports keeps of a file: the candidate it was imported
\* for, and whether it is the candidate itself or the module its wrapper names
Imported(f) == [kind |-> f.kind, at |-> f.at]

\* ------------------------------------------------- the default export
\* sc instanceof SubCommand
InstanceOfSubCommand(v) == v \in SubCommandInstances

RECURSIVE FilterInstances(_)
FilterInstances(elems) ==
    IF elems = <<>>
    THEN <<>>
    ELSE IF InstanceOfSubCommand(Head(elems))
         THEN <<Head(elems)>> \o FilterInstances(Tail(elems))
         ELSE FilterInstances(Tail(elems))

\* (an array pushed whole, without the instanceof filter)
PushedUnfiltered(export) ==
    IF export.kind = "undefined"
    THEN <<>>
    ELSE IF export.kind = "array"
         THEN export.elems
         ELSE IF InstanceOfSubCommand(export.elems[1])
              THEN <<export.elems[1]>>
              ELSE <<>>

\* what importSubCommandSourceFile pushes for a default export (lines 151-157)
Pushed(export) ==
    IF export.kind = "undefined"
    THEN <<>>
    ELSE IF export.kind = "array"
         THEN FilterInstances(export.elems)
         ELSE IF InstanceOfSubCommand(export.elems[1])
              THEN <<export.elems[1]>>
              ELSE <<>>

\* (the descriptors put in front of the accumulated ones)
Unshift(list, items) == items \o list

\* subCommands.push(...), lines 153 and 155
Push(list, items) == list \o items

\* ------------------------------------------------------- the registry
\* (a map made anew on every turn of the reduce)
SetRunnerAnew(runners, sc) == [n \in {scName[sc]} |-> sc]

\* subCommandRunners.set(sc.name(), (args) => sc.run(args))
SetRunner(runners, sc) ==
    [n \in (DOMAIN runners) \cup {scName[sc]} |->
        IF n = scName[sc] THEN sc ELSE runners[n]]

\* subCommands.reduce(...), lines 65-68
RECURSIVE Reduce(_, _)
Reduce(scs, runners) ==
    IF scs = <<>>
    THEN runners
    ELSE Reduce(Tail(scs), SetRunner(runners, Head(scs)))

\* (a lookup that falls back on some registered runner)
GetFallback(runners, name) ==
    IF name \in DOMAIN runners
    THEN runners[name]
    ELSE IF DOMAIN runners = {}
         THEN "undefined"
         ELSE runners[CHOOSE n \in DOMAIN runners : TRUE]

\* subCommandRunners.get(subCommand): the instance whose run() the runner
\* calls, or undefined
Get(runners, name) == IF name \in DOMAIN runners THEN runners[name] ELSE "undefined"

\* (the runner's status taken as a success flag)
RunnerExitFlag(r) ==
    IF r.kind = "resolved"
    THEN ExitProcess(IF r.code = 0 THEN 0 ELSE 1)
    ELSE CatchDispatch

\* the status main() exits with once the awaited runner has settled
RunnerExit(r) == IF r.kind = "resolved" THEN ExitProcess(r.code) ELSE CatchDispatch

\* ---------------------------------------------------------------- Init
HostInit ==
    /\ pc = "start"
    /\ scName \in [SubCommandInstances -> Names]
    /\ probes = <<>>
    /\ koolieBinDir = "scriptDir"
    /\ subCommandFiles = <<>>
    /\ idx = 0
    /\ filename = NoFile
    /\ contents = <<>>
    /\ match = NoMatch
    /\ defaultExport = Undefined
    /\ subCommands = <<>>
    /\ subCommandRunners = NoRunners
    /\ subCommand = ""
    /\ result = NoResult
    /\ exitCode = 0
    /\ fault = "none"
    /\ imports = <<>>
    /\ invoked = <<>>

\* the build-docs runner has not been called
DocsIdle ==
    /\ dpc = "idle"
    /\ entryPoint = <<>>
    /\ src = NoSrc
    /\ srcDir = "unprobed"
    /\ srcRoot = <<>>
    /\ preferIndex = TRUE
    /\ inclusions = <<>>
    /\ exclusions = <<>>
    /\ walked = {}
    /\ fileList = <<>>
    /\ srcFiles = <<>>
    /\ entryPoints = <<>>
    /\ entryPointArgs = <<>>
    /\ steps = NoSteps
    /\ generated = <<>>
    /\ reported = FALSE
    /\ rc = NoStatus

Init == HostInit /\ DocsIdle

\* ------------------------------------------------------------- actions
\* main(), lines 18-35: the two probes of <cwd>/node_modules/.bin; the second
\* is made only when the first one says no
ResolveBinDir ==
    /\ pc = "start"
    /\ UNCHANGED docsVars
    /\ \E main \in StatOutcomes, cmd \in StatOutcomes :
        /\ probes' = IF StatThrows(main) THEN <<main>>
                      ELSE IF fileExists(main) THEN <<main>> ELSE <<main, cmd>>
        /\ IF StatThrows(main)
           THEN /\ fault' = "stat"
                /\ CatchTopLevel
                /\ UNCHANGED koolieBinDir
           ELSE IF ~fileExists(main) /\ StatThrows(cmd)
           THEN /\ fault' = "stat"
                /\ CatchTopLevel
                /\ UNCHANGED koolieBinDir
           ELSE /\ koolieBinDir' = IF fileExists(main) \/ fileExists(cmd)
                                   THEN "relativeBinDir"
                                   ELSE "scriptDir"
                /\ pc' = "readdir"
                /\ UNCHANGED <<fault, exitCode>>
    /\ UNCHANGED <<scName, subCommandFiles, idx, filename, contents, match,
                   defaultExport, subCommands, subCommandRunners, subCommand,
                   result, imports, invoked>>

\* main(), lines 39-47: the candidate files of the bin directory; what the
\* probes gave is kept in koolieBinDir alone
ReadDir ==
    /\ pc = "readdir"
    /\ UNCHANGED docsVars
    /\ probes' = <<>>
    /\ \/ /\ fault' = "readdir"
          /\ CatchReaddir
          /\ UNCHANGED subCommandFiles
       \/ \E n \in 0..MaxFiles :
            /\ subCommandFiles' = [i \in 1..n |-> i]
            /\ pc' = "loop"
            /\ UNCHANGED <<fault, exitCode>>
    /\ UNCHANGED <<scName, koolieBinDir, idx, filename, contents, match,
                   defaultExport, subCommands, subCommandRunners, subCommand,
                   result, imports, invoked>>

\* the loop's next turn once importSubCommand has returned (line 52); the
\* locals of the import functions are gone
NextCandidate ==
    /\ idx' = idx + 1
    /\ pc' = "loop"
    /\ filename' = NoFile
    /\ contents' = <<>>
    /\ match' = NoMatch
    /\ defaultExport' = Undefined

\* importSubCommand, lines 94-110: the probe for the wrapper
ImportSubCommand ==
    /\ pc = "loop"
    /\ UNCHANGED docsVars
    /\ idx < Len(subCommandFiles)
    /\ \E probe \in StatOutcomes :
        IF StatThrows(probe)
        THEN /\ fault' = "probe"
             /\ CatchImportSubCommand
             /\ UNCHANGED filename
        ELSE /\ filename' = [kind |-> IF fileExists(probe) THEN "wrapper" ELSE "bin",
                             at |-> idx, path |-> <<>>]
             /\ pc' = IF fileExists(probe) THEN "readWrapper" ELSE "import"
             /\ UNCHANGED <<fault, exitCode>>
    /\ UNCHANGED <<probes, scName, koolieBinDir, subCommandFiles, idx, contents, match,
                   defaultExport, subCommands, subCommandRunners, subCommand,
                   result, imports, invoked>>

\* importWindowsSubCommand, line 122: the wrapper is read
ReadWrapper ==
    /\ pc = "readWrapper"
    /\ UNCHANGED docsVars
    /\ \/ /\ fault' = "readFile"
          /\ CatchWindowsWrapper
          /\ UNCHANGED contents
       \/ \E c \in SeqsUpTo(WrapperTokens, MaxContents) :
            /\ contents' = c
            /\ pc' = "exec"
            /\ UNCHANGED <<fault, exitCode>>
    /\ UNCHANGED <<probes, scName, koolieBinDir, subCommandFiles, idx, filename, match,
                   defaultExport, subCommands, subCommandRunners, subCommand,
                   result, imports, invoked>>

\* importWindowsSubCommand, lines 128-132: the module path is taken out of the
\* text; without a match the function returns and the loop goes on
ExecPattern ==
    /\ pc = "exec"
    /\ UNCHANGED docsVars
    /\ IF RegExpExec(contents).found
       THEN /\ match' = RegExpExec(contents)
            /\ filename' = JsSourceFile(match')
            /\ pc' = "import"
            /\ UNCHANGED <<idx, contents, defaultExport>>
       ELSE NextCandidate
    /\ UNCHANGED <<probes, scName, koolieBinDir, subCommandFiles, subCommands,
                   subCommandRunners, subCommand, result, exitCode, fault,
                   imports, invoked>>

\* importSubCommandSourceFile, lines 149-150: the module is imported
ImportSourceFile ==
    /\ pc = "import"
    /\ UNCHANGED docsVars
    /\ imports' = Append(imports, Imported(filename))
    /\ \/ /\ fault' = "import"
          /\ CatchSourceFile
          /\ UNCHANGED defaultExport
       \/ \E export \in DefaultExports :
            /\ defaultExport' = export
            /\ pc' = "push"
            /\ UNCHANGED <<fault, exitCode>>
    /\ UNCHANGED <<probes, scName, koolieBinDir, subCommandFiles, idx, filename, contents,
                   match, subCommands, subCommandRunners, subCommand, result,
                   invoked>>

\* importSubCommandSourceFile, lines 151-157: the instances among the default
\* export are pushed
PushExports ==
    /\ pc = "push"
    /\ UNCHANGED docsVars
    /\ subCommands' = Push(subCommands, Pushed(defaultExport))
    /\ NextCandidate
    /\ UNCHANGED <<probes, scName, koolieBinDir, subCommandFiles, subCommandRunners,
                   subCommand, result, exitCode, fault, imports, invoked>>

\* main(), lines 58-68: yargs is configured and the registry is built
Register ==
    /\ pc = "loop"
    /\ UNCHANGED docsVars
    /\ idx >= Len(subCommandFiles)
    /\ subCommandRunners' = Reduce(subCommands, NoRunners)
    /\ pc' = "parse"
    /\ UNCHANGED <<probes, scName, koolieBinDir, subCommandFiles, idx, filename, contents,
                   match, defaultExport, subCommands, subCommand, result,
                   exitCode, fault, imports, invoked>>

\* main(), lines 72-73: yargs parses; it throws, or fails and prints its help
\* (demandCommand, showHelpOnFail), or gives the first positional token
ParseArgs ==
    /\ pc = "parse"
    /\ UNCHANGED docsVars
    /\ \/ /\ fault' = "yargs"
          /\ CatchDispatch
          /\ UNCHANGED subCommand
       \/ \E token \in Tokens :
            /\ subCommand' = token
            /\ pc' = "dispatch"
            /\ UNCHANGED <<fault, exitCode>>
    /\ UNCHANGED <<probes, scName, koolieBinDir, subCommandFiles, idx, filename, contents,
                   match, defaultExport, subCommands, subCommandRunners, result,
                   imports, invoked>>

\* (a dispatch that takes the runners out of the map)
DispatchAndForget ==
    /\ pc = "dispatch"
    /\ UNCHANGED docsVars
    /\ subCommandRunners' = NoRunners
    /\ IF Get(subCommandRunners, subCommand) # "undefined"
       THEN /\ invoked' = Append(invoked, Get(subCommandRunners, subCommand))
            /\ pc' = "running"
            /\ UNCHANGED exitCode
       ELSE /\ ExitProcess(1)
            /\ UNCHANGED invoked
    /\ UNCHANGED <<probes, scName, koolieBinDir, subCommandFiles, idx, filename,
                   contents, match, defaultExport, subCommands, subCommand,
                   result, fault, imports>>

\* main(), lines 74-79: the runner is looked up and called
Dispatch ==
    /\ pc = "dispatch"
    /\ UNCHANGED docsVars
    /\ IF Get(subCommandRunners, subCommand) # "undefined"
       THEN /\ invoked' = Append(invoked, Get(subCommandRunners, subCommand))
            /\ pc' = "running"
            /\ UNCHANGED exitCode
       ELSE /\ ExitProcess(1)
            /\ UNCHANGED invoked
    /\ UNCHANGED <<probes, scName, koolieBinDir, subCommandFiles, idx, filename, contents,
                   match, defaultExport, subCommands, subCommandRunners,
                   subCommand, result, fault, imports>>

\* main(), lines 79-85: the awaited runner resolves with a status or rejects
RunnerSettles ==
    /\ pc = "running"
    /\ UNCHANGED docsVars
    /\ \E r \in {[kind |-> "resolved", code |-> n] : n \in 0..MaxExit}
                \cup {[kind |-> "rejected", code |-> 0]} :
        /\ result' = r
        /\ fault' = IF r.kind = "rejected" THEN "runner" ELSE fault
        /\ RunnerExit(r)
    /\ UNCHANGED <<probes, scName, koolieBinDir, subCommandFiles, idx, filename, contents,
                   match, defaultExport, subCommands, subCommandRunners,
                   subCommand, imports, invoked>>

Next ==
    \/ ResolveBinDir
    \/ ReadDir
    \/ ImportSubCommand
    \/ ReadWrapper
    \/ ExecPattern
    \/ ImportSourceFile
    \/ PushExports
    \/ Register
    \/ ParseArgs
    \/ Dispatch
    \/ RunnerSettles

Spec == Init /\ [][Next]_vars

\* ======================================================== build-docs
\* process.cwd()
Cwd == <<"w">>

\* the source root as klaw resolves it: --src /, --src . and the default 'src'
SrcRoots == {<<>>, Cwd, Cwd \o <<"src">>}

\* the directories beneath the source root, and the names of the files in them
SubDirs == {<<>>, <<"a">>, <<"b">>, <<"a", "b">>}
BaseNames == {"index.ts", "x.ts", "x.spec.ts", "widget.ts"}

\* the directories klaw yields as items: the root itself, and one whose name
\* ends as a source file's does
DirNames == {<<>>, <<"a", "gen.ts">>}

\* the items klaw may yield beneath a root: absolute paths, as segments
Items(root) ==
    {[path |-> root \o d \o <<b>>, isFile |-> TRUE] : d \in SubDirs, b \in BaseNames}
    \cup {[path |-> root \o d, isFile |-> FALSE] : d \in DirNames}

Front(q) == SubSeq(q, 1, Len(q) - 1)
Last(q) == q[Len(q)]

\* filename.replace(cwdRegExp, ''): the leading "<cwd>/" is taken off, and the
\* path is then relative
RelPath(path) ==
    IF Len(path) > Len(Cwd) /\ SubSeq(path, 1, Len(Cwd)) = Cwd
    THEN [abs |-> FALSE, segs |-> SubSeq(path, Len(Cwd) + 1, Len(path))]
    ELSE [abs |-> TRUE, segs |-> path]

\* basename(srcFile), dirname(srcFile); the base name of '/' is empty
basename(rel) == IF rel.segs = <<>> THEN "" ELSE Last(rel.segs)
dirname(rel) == [abs |-> rel.abs, segs |-> Front(rel.segs)]

\* GlobToRegExp without the globstar option turns any run of stars into ".*":
\* '**/*.ts' is /^.*\/.*\.ts$/ and '**/*.spec.ts' is /^.*\/.*\.spec\.ts$/
HasSeparator(rel) == rel.abs \/ Len(rel.segs) >= 2
EndsWith(base, suffix) ==
    \/ suffix = ".ts" /\ base \in {"index.ts", "x.ts", "x.spec.ts", "widget.ts", "gen.ts"}
    \/ suffix = ".spec.ts" /\ base \in {"x.spec.ts"}
GlobTest(suffix, rel) == HasSeparator(rel) /\ EndsWith(basename(rel), suffix)

\* getDefaultEntryPoints, line 210: the globs, by the suffix after '**/*'
Inclusions == <<".ts">>
Exclusions == <<".spec.ts">>

\* the lists of globs getSourceFiles may be given, by the suffix after '**/*'
GlobLists == {<<>>, <<".ts">>, <<".ts", ".spec.ts">>}
ExclusionLists == {<<>>, <<".spec.ts">>}

\* (a filter that does not look at what kind of item it is given)
FilterAnyItem(item) ==
    /\ \E i \in 1..Len(inclusions) : GlobTest(inclusions[i], RelPath(item.path))
    /\ ~\E e \in 1..Len(exclusions) : GlobTest(exclusions[e], RelPath(item.path))

\* the filter getSourceFiles hands to findFiles, lines 252-266
Filter(item) ==
    /\ item.isFile
    /\ \E i \in 1..Len(inclusions) : GlobTest(inclusions[i], RelPath(item.path))
    /\ ~\E e \in 1..Len(exclusions) : GlobTest(exclusions[e], RelPath(item.path))

\* parse(filename).dir of an absolute path, as text: "/" for the root, else
\* a separator before every segment
DirText(path) ==
    IF Len(path) = 1
    THEN <<"/">>
    ELSE [i \in 1..(2 * (Len(path) - 1)) |->
             IF i % 2 = 1 THEN "/" ELSE path[i \div 2]]

\* components.dir.split(sep).length
SplitLength(text) == Cardinality({i \in 1..Len(text) : text[i] = "/"}) + 1

\* the match of a file, lines 268-273
Match(path) ==
    [filename |-> path,
     depth |-> SplitLength(DirText(path)),
     isIndex |-> Last(path) = "index.ts"]

RECURSIVE MapMatch(_)
MapMatch(list) ==
    IF list = <<>> THEN <<>> ELSE <<Match(Head(list))>> \o MapMatch(Tail(list))

\* (a comparator that puts the shallower of two files first)
CompareShallowFirst(a, b) ==
    IF ~a.isIndex /\ b.isIndex
    THEN -1
    ELSE IF a.isIndex /\ ~b.isIndex
         THEN 1
         ELSE a.depth - b.depth

\* the comparator of the sort, line 279
Compare(a, b) ==
    IF ~a.isIndex /\ b.isIndex
    THEN -1
    ELSE IF a.isIndex /\ ~b.isIndex
         THEN 1
         ELSE b.depth - a.depth

\* Array.prototype.sort is stable: an element goes before the first one that
\* the comparator puts after it
Insert(sorted, m) ==
    LET after == {i \in 1..Len(sorted) : Compare(sorted[i], m) > 0}
        at == IF after = {} THEN Len(sorted) + 1 ELSE Min(after)
    IN  SubSeq(sorted, 1, at - 1) \o <<m>> \o SubSeq(sorted, at, Len(sorted))

RECURSIVE Sort(_)
Sort(matches) ==
    IF matches = <<>>
    THEN <<>>
    ELSE Insert(Sort(Front(matches)), Last(matches))

RECURSIVE MapRelPath(_)
MapRelPath(matches) ==
    IF matches = <<>>
    THEN <<>>
    ELSE <<RelPath(Head(matches).filename)>> \o MapRelPath(Tail(matches))

\* what getSourceFiles returns for a file list, lines 268-281
SortedSourceFiles(list) == MapRelPath(Sort(MapMatch(list)))

\* the directories that hold an index.ts, lines 218-224
DirHasIndex(files) ==
    {dirname(files[i]) : i \in {k \in 1..Len(files) : basename(files[k]) = "index.ts"}}

\* (an index.ts anywhere drops the other files of every directory)
KeepIndexesOnly(files, srcFile) ==
    basename(srcFile) = "index.ts" \/ DirHasIndex(files) = {}

\* the filter of the index preference, lines 226-230
KeepWithIndex(files, srcFile) ==
    basename(srcFile) = "index.ts" \/ dirname(srcFile) \notin DirHasIndex(files)

PreferIndexFilter(files) == SelectSeq(files, LAMBDA f : KeepWithIndex(files, f))

\* the host has called the build-docs runner and awaits it
HostAwaitsBuildDocs ==
    /\ pc = "running"
    /\ scName = [sc \in SubCommandInstances |->
                    IF sc = "sc1" THEN "build-dist" ELSE "build-docs"]
    /\ probes = <<>>
    /\ koolieBinDir = "scriptDir"
    /\ subCommandFiles = <<1>>
    /\ idx = 1
    /\ filename = NoFile
    /\ contents = <<>>
    /\ match = NoMatch
    /\ defaultExport = Undefined
    /\ subCommands = <<"sc2">>
    /\ subCommandRunners = Reduce(<<"sc2">>, NoRunners)
    /\ subCommand = "build-docs"
    /\ result = NoResult
    /\ exitCode = 0
    /\ fault = "none"
    /\ imports = <<[kind |-> "bin", at |-> 0]>>
    /\ invoked = <<"sc2">>

\* what --src may be: absent, or one of the roots
SrcOptions == {NoSrc} \cup {[given |-> TRUE, root |-> r] : r \in SrcRoots}

\* what --entryPoint may be: absent (or empty), or a list of paths
ExplicitEntryPoints ==
    {<<>>,
     <<[abs |-> FALSE, segs |-> <<"src", "index.ts">>]>>,
     <<[abs |-> FALSE, segs |-> <<"lib", "x.ts">>],
       [abs |-> FALSE, segs |-> <<"src", "index.ts">>]>>}

\* run() is called with the parsed arguments
DocsInit ==
    /\ HostAwaitsBuildDocs
    /\ dpc = "run"
    /\ entryPoint \in ExplicitEntryPoints
    /\ src \in SrcOptions
    /\ srcDir = "unprobed"
    /\ srcRoot = <<>>
    /\ preferIndex \in BOOLEAN
    /\ inclusions = <<>>
    /\ exclusions = <<>>
    /\ walked = {}
    /\ fileList = <<>>
    /\ srcFiles = <<>>
    /\ entryPoints = <<>>
    /\ entryPointArgs = <<>>
    /\ steps = NoSteps
    /\ generated = <<>>
    /\ reported = FALSE
    /\ rc = NoStatus

\* (only the first entry point is passed on)
EntryPointArgsFirst(points) ==
    IF points = <<>>
    THEN <<>>
    ELSE << [flag |-> "--entryPoints", value |-> points[1]] >>

\* lines 131-132: '--entryPoints' and the path, for every entry point; an
\* element stands for the two arguments pushed together
EntryPointArgs(points) ==
    [i \in 1..Len(points) |-> [flag |-> "--entryPoints", value |-> points[i]]]

\* run()'s return
Return(code) ==
    /\ rc' = [kind |-> "returned", code |-> code]
    /\ dpc' = "settled"

\* run()'s promise is rejected
Reject ==
    /\ rc' = [kind |-> "rejected", code |-> 0]
    /\ dpc' = "settled"

\* run()'s catch, lines 125-128
CatchRun ==
    /\ reported' = TRUE
    /\ Return(1)

\* run(), lines 121-122 and, with entry points given, 131-132
Run ==
    /\ dpc = "run"
    /\ IF Len(entryPoint) < 1
       THEN /\ dpc' = "srcRoot"
            /\ UNCHANGED <<entryPoints, entryPointArgs>>
       ELSE /\ entryPoints' = entryPoint
            /\ entryPointArgs' = EntryPointArgs(entryPoint)
            /\ dpc' = "html"
    /\ UNCHANGED <<entryPoint, src, srcDir, srcRoot, preferIndex, inclusions,
                   exclusions, walked, fileList, srcFiles, steps, generated,
                   reported, rc>>
    /\ UNCHANGED hostVars

\* getDefaultEntryPoints, lines 200-210: the source root, and the call of
\* getSourceFiles on it
ResolveSrcRoot ==
    /\ dpc = "srcRoot"
    /\ IF src.given
       THEN /\ srcRoot' = src.root
            /\ inclusions' = Inclusions
            /\ exclusions' = Exclusions
            /\ dpc' = "walk"
            /\ UNCHANGED <<srcDir, reported, rc>>
       ELSE \E outcome \in StatOutcomes :
            /\ srcDir' = outcome
            /\ IF ~StatThrows(outcome) /\ dirExists(outcome)
               THEN /\ srcRoot' = Cwd \o <<"src">>
                    /\ inclusions' = Inclusions
                    /\ exclusions' = Exclusions
                    /\ dpc' = "walk"
                    /\ UNCHANGED <<reported, rc>>
               ELSE /\ CatchRun
                    /\ UNCHANGED <<srcRoot, inclusions, exclusions>>
    /\ UNCHANGED <<entryPoint, src, preferIndex, walked, fileList, srcFiles,
                   entryPoints, entryPointArgs, steps, generated>>
    /\ UNCHANGED hostVars

\* klaw goes breadth first: an item is never shallower than one yielded before
BreadthFirst(item) == \A w \in walked : Len(w.path) <= Len(item.path)

\* findFiles, Utils.ts lines 109-113: klaw yields an item, and the item is kept
\* if it passes the filter
FindFiles ==
    /\ dpc = "walk"
    /\ Cardinality(walked) < MaxItems
    /\ \E item \in Items(srcRoot) \ walked :
        /\ BreadthFirst(item)
        /\ walked' = walked \cup {item}
        /\ fileList' = IF Filter(item) THEN Append(fileList, item.path) ELSE fileList
    /\ UNCHANGED <<dpc, entryPoint, src, srcDir, srcRoot, preferIndex,
                   inclusions, exclusions, srcFiles, entryPoints,
                   entryPointArgs, steps, generated, reported, rc>>
    /\ UNCHANGED hostVars

\* findFiles, Utils.ts line 109: klaw fails on a directory it cannot read (or
\* on a root that is not there), and the error reaches run()'s catch
FindFilesFails ==
    /\ dpc = "walk"
    /\ walked' = {}
    /\ fileList' = <<>>
    /\ CatchRun
    /\ UNCHANGED <<entryPoint, src, srcDir, srcRoot, preferIndex, inclusions,
                   exclusions, srcFiles, entryPoints, entryPointArgs, steps,
                   generated>>
    /\ UNCHANGED hostVars

\* getSourceFiles, lines 268-281: klaw has ended; the matches are sorted
GetSourceFiles ==
    /\ dpc = "walk"
    /\ srcFiles' = SortedSourceFiles(fileList)
    /\ dpc' = "prefer"
    /\ UNCHANGED <<entryPoint, src, srcDir, srcRoot, preferIndex, inclusions,
                   exclusions, walked, fileList, entryPoints, entryPointArgs,
                   steps, generated, reported, rc>>
    /\ UNCHANGED hostVars

\* getDefaultEntryPoints, lines 215-233
GetDefaultEntryPoints ==
    /\ dpc = "prefer"
    /\ srcFiles' = IF preferIndex THEN PreferIndexFilter(srcFiles) ELSE srcFiles
    /\ dpc' = "done"
    /\ UNCHANGED <<entryPoint, src, srcDir, srcRoot, preferIndex, inclusions,
                   exclusions, walked, fileList, entryPoints, entryPointArgs,
                   steps, generated, reported, rc>>
    /\ UNCHANGED hostVars

\* run(), lines 124 and 131-132: the entry points are those returned; the
\* locals of getSourceFiles are gone
ReturnEntryPoints ==
    /\ dpc = "done"
    /\ entryPoints' = srcFiles
    /\ entryPointArgs' = EntryPointArgs(srcFiles)
    /\ walked' = {}
    /\ fileList' = <<>>
    /\ dpc' = "html"
    /\ UNCHANGED <<entryPoint, src, srcDir, srcRoot, preferIndex, inclusions,
                   exclusions, srcFiles, steps, generated, reported, rc>>
    /\ UNCHANGED hostVars

\* the command line of typedoc, lines 169 and 190
TypedocArgs(configFile) == [options |-> configFile, entryPoints |-> entryPointArgs]

\* generateHtmlDocs and generateMarkdownDocs, lines 158-191, and what run()
\* does with the status, lines 134-148: the step is switched off, or its
\* config file is missing, or typedoc is run
GenerateDocs(step, configFile, onZero) ==
    \E enabled \in BOOLEAN, config \in StatOutcomes,
       outcome \in ExecuteCommandOutcomes :
        IF ~enabled
        THEN /\ steps' = [steps EXCEPT ![step] = "disabled"]
             /\ onZero
             /\ UNCHANGED generated
        ELSE IF StatThrows(config)
        THEN /\ steps' = [steps EXCEPT ![step] = "failed"]
             /\ Reject
             /\ UNCHANGED generated
        ELSE IF ~fileExists(config)
        THEN /\ steps' = [steps EXCEPT ![step] = "skipped"]
             /\ onZero
             /\ UNCHANGED generated
        ELSE /\ generated' = Append(generated,
                    [step |-> step, args |-> TypedocArgs(configFile),
                     kind |-> outcome.kind, code |-> outcome.code])
             /\ IF outcome.kind = "error"
                THEN /\ steps' = [steps EXCEPT ![step] = "failed"]
                     /\ Reject
                ELSE /\ steps' = [steps EXCEPT ![step] = "ran"]
                     /\ IF outcome.code # 0
                        THEN Return(outcome.code)
                        ELSE onZero

\* run(), lines 134-139
GenerateHtmlDocs ==
    /\ dpc = "html"
    /\ GenerateDocs("html", "docs/html-config.cjs",
                    dpc' = "markdown" /\ UNCHANGED rc)
    /\ UNCHANGED <<entryPoint, src, srcDir, srcRoot, preferIndex, inclusions,
                   exclusions, walked, fileList, srcFiles, entryPoints,
                   entryPointArgs, reported>>
    /\ UNCHANGED hostVars

\* run(), lines 141-148
GenerateMarkdownDocs ==
    /\ dpc = "markdown"
    /\ GenerateDocs("markdown", "docs/markdown-config.cjs", Return(0))
    /\ UNCHANGED <<entryPoint, src, srcDir, srcRoot, preferIndex, inclusions,
                   exclusions, walked, fileList, srcFiles, entryPoints,
                   entryPointArgs, reported>>
    /\ UNCHANGED hostVars

DocsNext ==
    \/ Run
    \/ ResolveSrcRoot
    \/ FindFiles
    \/ FindFilesFails
    \/ GetSourceFiles
    \/ GetDefaultEntryPoints
    \/ ReturnEntryPoints
    \/ GenerateHtmlDocs
    \/ GenerateMarkdownDocs

DocsSpec == DocsInit /\ [][DocsNext]_vars

\* ------------------------------------------- getSourceFiles on its own
\* getSourceFiles is called on a root with lists of globs
SourceFilesInit ==
    /\ HostAwaitsBuildDocs
    /\ dpc = "walk"
    /\ entryPoint = <<>>
    /\ src = NoSrc
    /\ srcDir = "unprobed"
    /\ srcRoot \in SrcRoots
    /\ preferIndex = TRUE
    /\ inclusions \in GlobLists
    /\ exclusions \in ExclusionLists
    /\ walked = {}
    /\ fileList = <<>>
    /\ srcFiles = <<>>
    /\ entryPoints = <<>>
    /\ entryPointArgs = <<>>
    /\ steps = NoSteps
    /\ generated = <<>>
    /\ reported = FALSE
    /\ rc = NoStatus

SourceFilesNext ==
    \/ FindFiles
    \/ GetSourceFiles

SourceFilesSpec == SourceFilesInit /\ [][SourceFilesNext]_vars

\* ================================================================ claims
\* the names of the descriptors discovery has accumulated
RegisteredNames == {scName[subCommands[i]] : i \in 1..Len(subCommands)}

\* the registry has been built and the process is still running
RegistryBuilt == pc \in {"parse", "dispatch", "running"}

\* the descriptors' names are pairwise distinct
UniqueNames ==
    \A i, j \in 1..Len(subCommands) :
        scName[subCommands[i]] = scName[subCommands[j]] => i = j

\* the first descriptor discovered under a name
FirstNamed(n) ==
    subCommands[Min({i \in 1..Len(subCommands) : scName[subCommands[i]] = n})]

\* the text holds "..\", and a ".js" somewhere after it
HasPattern(c) ==
    \E i \in 1..Len(c), j \in 1..Len(c) :
        /\ i + 1 < j
        /\ c[i] = ".."
        /\ c[i + 1] = "\\"
        /\ c[j] = ".js"

\* the values of a default export that are SubCommand instances, in order
InstancesOf(export) ==
    SelectSeq(export.elems, LAMBDA v : v \in SubCommandInstances)

\* C1: once a command name that has no runner in the registry has been
\* dispatched, the process has exited with status 1 and no run() was called.
C1_UnknownCommandExitsOne ==
    (pc \in {"running", "exited"} /\ subCommand # ""
        /\ subCommand \notin DOMAIN subCommandRunners)
    => (pc = "exited" /\ exitCode = 1 /\ invoked = <<>>)

C1_Witness ==
    /\ pc = "exited"
    /\ subCommand = "frobnicate"
    /\ DOMAIN subCommandRunners # {}
    /\ exitCode = 1
    /\ invoked = <<>>

\* C2: for a registered command, the process exits with exactly the status the
\* runner resolved with; a runner that rejects gives status 1, through the
\* dispatcher's own catch.
C2_ExitStatusIsRunnerStatus ==
    /\ result.kind = "resolved" => (pc = "exited" /\ exitCode = result.code)
    /\ result.kind = "rejected" => (pc = "exited" /\ exitCode = 1 /\ fault = "runner")
    /\ pc = "running" => subCommand \in DOMAIN subCommandRunners

C2_Witness ==
    /\ pc = "exited"
    /\ result.kind = "resolved"
    /\ result.code = MaxExit
    /\ exitCode = MaxExit

\* C3: a second descriptor under a name already registered never replaces the
\* first: while the process runs with its registry built, every name maps to
\* the first descriptor discovered under it.
C3_NoSilentOverwrite ==
    RegistryBuilt =>
        \A n \in DOMAIN subCommandRunners : subCommandRunners[n] = FirstNamed(n)

\* C4: with pairwise distinct names, the registry holds exactly the names of
\* the discovered descriptors, each mapped to the runner of its own
\* descriptor, and the runner that is called is the requested name's.
C4_RegistryOfUniqueNames ==
    (RegistryBuilt /\ UniqueNames) =>
        /\ DOMAIN subCommandRunners = RegisteredNames
        /\ \A i \in 1..Len(subCommands) :
              subCommandRunners[scName[subCommands[i]]] = subCommands[i]
        /\ pc = "running" =>
              \E i \in 1..Len(subCommands) :
                  /\ scName[subCommands[i]] = subCommand
                  /\ invoked = <<subCommands[i]>>

C4_Witness ==
    /\ pc = "running"
    /\ Len(subCommands) = 2
    /\ UniqueNames
    /\ invoked = <<subCommands[2]>>

\* C5: an exception raised by the probe for a wrapper, by the read of a
\* wrapper or by an import ends the process with a non-zero status: no
\* registry is built, no argument is parsed, no runner is called.
C5_DiscoveryAllOrNothing ==
    fault \in {"probe", "readFile", "import"} =>
        /\ pc = "exited"
        /\ exitCode # 0
        /\ subCommandRunners = NoRunners
        /\ subCommand = ""
        /\ invoked = <<>>

C5_Witness ==
    /\ fault = "import"
    /\ pc = "exited"
    /\ idx >= 1
    /\ subCommands # <<>>

\* C6: a wrapper's text without the pattern gives no module path: nothing is
\* imported, no descriptor is added, no exception is raised, and the loop
\* goes on to the next candidate with the process running.
C6_NoPatternSkipsCandidate ==
    [][(pc = "exec" /\ ~HasPattern(contents)) =>
          /\ match' = NoMatch
          /\ filename' = NoFile
          /\ imports' = imports
          /\ subCommands' = subCommands
          /\ fault' = "none"
          /\ pc' = "loop"
          /\ idx' = idx + 1]_vars

\* the loop stands after a candidate that nothing was imported for
C6_Witness ==
    /\ pc = "loop"
    /\ idx >= 1
    /\ \A k \in 1..Len(imports) : imports[k].at # idx - 1
    /\ fault = "none"

\* C7, as claimed: a wrapper's text without the pattern ends the process with
\* status 1.
C7_MalformedWrapperIsFatal ==
    [][(pc = "exec" /\ ~HasPattern(contents)) =>
          (pc' = "exited" /\ exitCode' = 1)]_vars

\* C7, amended: a wrapper that cannot be read ends the process with status 1
\* before anything is dispatched; a wrapper's text without the pattern raises
\* nothing and does not end the process.
C7_UnreadableWrapperIsFatal ==
    [][/\ (pc = "readWrapper" /\ fault' = "readFile") =>
              (pc' = "exited" /\ exitCode' = 1 /\ subCommand' = "" /\ invoked' = <<>>)
       /\ (pc = "readWrapper" /\ fault' # "readFile") =>
              (pc' = "exec" /\ fault' = "none")
       /\ (pc = "exec" /\ ~HasPattern(contents)) =>
              (pc' # "exited" /\ fault' = "none")]_vars

C7_Witness ==
    /\ fault = "readFile"
    /\ pc = "exited"
    /\ exitCode = 1
    /\ filename.kind = "wrapper"

\* C8: after a successful import the instances among the exported values are
\* appended in their exported order, nothing else is appended, nothing
\* accumulated is removed, and the process goes on.
C8_PushesExportedInstances ==
    [][/\ (pc = "import" /\ fault' = "none") =>
              (pc' = "push" /\ subCommands' = subCommands)
       /\ pc = "push" =>
              /\ subCommands' = subCommands \o InstancesOf(defaultExport)
              /\ pc' = "loop"
              /\ fault' = "none"]_vars

\* two candidates were imported and three descriptors accumulated
C8_Witness ==
    /\ pc = "loop"
    /\ idx = 2
    /\ Len(imports) = 2
    /\ Len(subCommands) = 3

\* the absolute path a returned path stands for
AbsPath(rel) == IF rel.abs THEN rel.segs ELSE Cwd \o rel.segs

\* the number of path segments of the directory that holds a returned file
DirSegments(rel) == Len(AbsPath(rel)) - 1

IsIndexFile(rel) == rel.segs[Len(rel.segs)] = "index.ts"

\* the matched files, as absolute paths
Matched == {fileList[i] : i \in 1..Len(fileList)}

\* the returned files, as absolute paths
Returned == {AbsPath(srcFiles[i]) : i \in 1..Len(srcFiles)}

\* the matched files of the directory that holds a file
MatchedBeside(path) ==
    {f \in Matched : SubSeq(f, 1, Len(f) - 1) = SubSeq(path, 1, Len(path) - 1)}

HasMatchedIndex(path) == \E f \in MatchedBeside(path) : f[Len(f)] = "index.ts"

\* C9: in the returned list every index file comes after every file that is
\* none, and of two files that are no index files the one whose directory has
\* more path segments comes first.
C9_OrderingLaw ==
    dpc = "done" =>
        \A i, j \in 1..Len(srcFiles) :
            /\ (IsIndexFile(srcFiles[i]) /\ ~IsIndexFile(srcFiles[j])) => j < i
            /\ (/\ ~IsIndexFile(srcFiles[i])
                /\ ~IsIndexFile(srcFiles[j])
                /\ DirSegments(srcFiles[i]) > DirSegments(srcFiles[j])) => i < j

\* C10: with the preference on, a directory with a matched index.ts gives its
\* index.ts and none of its other files; every other matched file is
\* returned, whatever its parent directories hold; with the preference off
\* every matched file is returned. Nothing else is returned, and nothing twice.
C10_PreferIndexLaw ==
    dpc = "done" =>
        /\ Returned =
              {f \in Matched :
                  \/ ~preferIndex
                  \/ f[Len(f)] = "index.ts"
                  \/ ~HasMatchedIndex(f)}
        /\ Cardinality(Returned) = Len(srcFiles)

\* a directory gave its index.ts alone while the file of its sub-directory
\* was kept
C10_Witness ==
    /\ dpc = "done"
    /\ preferIndex
    /\ srcRoot = Cwd \o <<"src">>
    /\ Matched = {srcRoot \o <<"a", "index.ts">>, srcRoot \o <<"a", "x.ts">>,
                  srcRoot \o <<"a", "b", "x.ts">>}
    /\ Returned = {srcRoot \o <<"a", "index.ts">>, srcRoot \o <<"a", "b", "x.ts">>}

\* the files klaw has yielded, as absolute paths
WalkedFiles == {w.path : w \in {v \in walked : v.isFile}}

\* the tree a/b/index.ts, a/b/widget.ts, a/index.ts beneath a root
ScenarioTree(root) ==
    {root \o <<"a", "b", "index.ts">>, root \o <<"a", "b", "widget.ts">>,
     root \o <<"a", "index.ts">>}

\* the resolver has returned for the scenario's tree with the preference on
ScenarioResolved ==
    /\ dpc = "done"
    /\ preferIndex
    /\ WalkedFiles = ScenarioTree(srcRoot)
    /\ Matched = ScenarioTree(srcRoot)

\* C11, as claimed: for the tree a/b/index.ts, a/b/widget.ts, a/index.ts with
\* the preference on, the output is a/b/widget.ts, a/b/index.ts, a/index.ts.
C11_ScenarioKeepsWidget ==
    ScenarioResolved =>
        srcFiles = <<RelPath(srcRoot \o <<"a", "b", "widget.ts">>),
                     RelPath(srcRoot \o <<"a", "b", "index.ts">>),
                     RelPath(srcRoot \o <<"a", "index.ts">>)>>

\* C11, amended: for that tree the output with the preference on is
\* a/b/index.ts, a/index.ts, widget.ts being dropped for the index.ts beside
\* it; with the preference off it is a/b/widget.ts, a/b/index.ts, a/index.ts.
C11_ScenarioDropsWidget ==
    (dpc = "done" /\ WalkedFiles = ScenarioTree(srcRoot)) =>
        /\ Matched = ScenarioTree(srcRoot)
        /\ preferIndex =>
              srcFiles = <<RelPath(srcRoot \o <<"a", "b", "index.ts">>),
                           RelPath(srcRoot \o <<"a", "index.ts">>)>>
        /\ ~preferIndex =>
              srcFiles = <<RelPath(srcRoot \o <<"a", "b", "widget.ts">>),
                           RelPath(srcRoot \o <<"a", "b", "index.ts">>),
                           RelPath(srcRoot \o <<"a", "index.ts">>)>>

\* the scenario's tree beneath the working directory, resolved with the
\* preference on: the paths returned are a/b/index.ts and a/index.ts
C11_Witness ==
    /\ ScenarioResolved
    /\ srcRoot = Cwd
    /\ srcFiles = <<[abs |-> FALSE, segs |-> <<"a", "b", "index.ts">>],
                    [abs |-> FALSE, segs |-> <<"a", "index.ts">>]>>

\* some inclusion pattern matches the relative path of a file
IncludedBy(path) ==
    \E i \in 1..Len(inclusions) : GlobTest(inclusions[i], RelPath(path))

\* some exclusion pattern matches the relative path of a file
ExcludedBy(path) ==
    \E e \in 1..Len(exclusions) : GlobTest(exclusions[e], RelPath(path))

\* C12: of the items yielded so far, the matched ones are exactly the regular
\* files that some inclusion pattern matches and no exclusion pattern matches;
\* no directory is matched, no path is matched twice, and without an
\* inclusion pattern nothing is matched.
C12_MatchedSet ==
    /\ Matched = {w.path : w \in {v \in walked :
                      v.isFile /\ IncludedBy(v.path) /\ ~ExcludedBy(v.path)}}
    /\ \A w \in walked : ~w.isFile => w.path \notin Matched
    /\ Cardinality(Matched) = Len(fileList)
    /\ inclusions = <<>> => fileList = <<>>
    /\ dpc = "prefer" => Len(srcFiles) = Len(fileList)

\* a file that two inclusion patterns match is matched once, next to a
\* directory whose name the first pattern matches
C12_Witness ==
    /\ dpc = "prefer"
    /\ srcRoot = Cwd \o <<"src">>
    /\ inclusions = <<".ts", ".spec.ts">>
    /\ exclusions = <<>>
    /\ [path |-> srcRoot \o <<"a", "gen.ts">>, isFile |-> FALSE] \in walked
    /\ fileList = <<srcRoot \o <<"a", "x.spec.ts">>>>

\* C13: without entry points and without --src, a 'src' that is not a
\* directory makes run() report the error and return a status other than 0;
\* no root is walked, getSourceFiles is not called, and neither typedoc step
\* is started.
C13_NoSourceRootIsAnError ==
    srcDir \notin {"unprobed", "directory"} =>
        /\ entryPoint = <<>>
        /\ ~src.given
        /\ dpc = "settled"
        /\ rc.kind = "returned"
        /\ rc.code # 0
        /\ reported
        /\ generated = <<>>
        /\ steps = NoSteps
        /\ walked = {}
        /\ fileList = <<>>
        /\ inclusions = <<>>
        /\ entryPoints = <<>>

C13_Witness ==
    /\ srcDir = "ENOENT"
    /\ dpc = "settled"
    /\ rc = [kind |-> "returned", code |-> 1]
    /\ generated = <<>>

\* the statuses typedoc closed with for a step
CodesOf(step) ==
    {generated[k].code : k \in {j \in 1..Len(generated) :
                                    generated[j].step = step /\ generated[j].kind = "close"}}

\* a step that did not keep run() from going on
Passed(step) ==
    \/ steps[step] \in {"disabled", "skipped"}
    \/ steps[step] = "ran" /\ CodesOf(step) = {0}

\* C15: every call of typedoc is given one '--entryPoints <path>' pair for
\* each entry point, in their order; a status other than 0 of the HTML step is
\* what run() returns, and the Markdown step is then not started; otherwise
\* run() returns the status of the Markdown step when that step ran, and 0
\* when both steps passed or were switched off or skipped.
C15_GeneratorStatusPropagates ==
    /\ \A k \in 1..Len(generated) :
          /\ Len(generated[k].args.entryPoints) = Len(entryPoints)
          /\ \A i \in 1..Len(entryPoints) :
                generated[k].args.entryPoints[i] =
                    [flag |-> "--entryPoints", value |-> entryPoints[i]]
    /\ generated # <<>> =>
          entryPoints = IF entryPoint = <<>> THEN srcFiles ELSE entryPoint
    /\ \A step \in {"html", "markdown"} :
          /\ steps[step] \in {"pending", "disabled", "skipped"} =>
                \A k \in 1..Len(generated) : generated[k].step # step
          /\ steps[step] = "ran" => Cardinality(CodesOf(step)) = 1
    /\ Len(generated) <= 2
    /\ (steps.html = "ran" /\ CodesOf("html") # {0}) =>
          /\ dpc = "settled"
          /\ rc.kind = "returned"
          /\ CodesOf("html") = {rc.code}
          /\ steps.markdown = "pending"
    /\ (dpc = "settled" /\ steps.markdown = "ran") =>
          /\ rc.kind = "returned"
          /\ CodesOf("markdown") = {rc.code}
    /\ (dpc = "settled" /\ Passed("html") /\ Passed("markdown")) =>
          rc = [kind |-> "returned", code |-> 0]

\* the HTML step closed with 0 and the Markdown step with another status,
\* which run() returned, for two entry points found beneath the source root
C15_Witness ==
    /\ dpc = "settled"
    /\ entryPoint = <<>>
    /\ Len(entryPoints) = 2
    /\ Len(generated) = 2
    /\ generated[1].step = "html"
    /\ generated[1].code = 0
    /\ generated[2].step = "markdown"
    /\ generated[2].code = MaxExit
    /\ rc = [kind |-> "returned", code |-> MaxExit]

\* the phase the host is in: Idle, Discovering, Registered, Dispatching, and
\* the end of the process
Phase(p) ==
    CASE p = "start" -> 0
      [] p \in {"readdir", "loop", "readWrapper", "exec", "import", "push"} -> 1
      [] p = "parse" -> 2
      [] p \in {"dispatch", "running"} -> 3
      [] p = "exited" -> 4

Probed == {probes[k] : k \in 1..Len(probes)}

C17_SequentialLoading ==
    [][/\ pc = "import" =>
             /\ imports' = Append(imports, [kind |-> filename.kind, at |-> idx])
             /\ \A k \in 1..Len(imports) : imports[k].at < idx
             /\ defaultExport = Undefined
             /\ subCommands' = subCommands
             /\ idx' = idx
       /\ pc = "push" =>
             /\ imports # <<>>
             /\ imports[Len(imports)].at = idx
             /\ subCommands' = subCommands \o InstancesOf(defaultExport)
             /\ idx' = idx + 1
             /\ pc' = "loop"
       /\ pc # "import" => imports' = imports
       /\ pc # "push" => subCommands' = subCommands
       /\ pc \notin {"push", "exec"} => idx' = idx
       /\ idx' \in {idx, idx + 1}]_vars

\* the second candidate's descriptor stands behind the first candidate's
C17_Witness ==
    /\ pc = "loop"
    /\ idx = 2
    /\ Len(imports) = 2
    /\ imports[1].at = 0
    /\ imports[2].at = 1
    /\ subCommands = <<"sc2", "sc1">>

\* the specified pipeline, on absolute paths: the drop of step 5 ...
SpecifiedDrop(list) ==
    SelectSeq(list, LAMBDA f :
        \/ Last(f) = "index.ts"
        \/ ~\E k \in 1..Len(list) :
              Front(list[k]) = Front(f) /\ Last(list[k]) = "index.ts")

\* ... and the order of step 6: a file that is no index file before an index
\* file, and of two files of equal index status the deeper one first
SpecifiedBefore(f, g) ==
    \/ Last(f) # "index.ts" /\ Last(g) = "index.ts"
    \/ /\ (Last(f) = "index.ts") = (Last(g) = "index.ts")
       /\ Len(f) > Len(g)

SpecifiedInsert(sorted, f) ==
    LET after == {i \in 1..Len(sorted) : SpecifiedBefore(f, sorted[i])}
        at == IF after = {} THEN Len(sorted) + 1 ELSE Min(after)
    IN  SubSeq(sorted, 1, at - 1) \o <<f>> \o SubSeq(sorted, at, Len(sorted))

RECURSIVE SpecifiedSort(_)
SpecifiedSort(list) ==
    IF list = <<>>
    THEN <<>>
    ELSE SpecifiedInsert(SpecifiedSort(Front(list)), Last(list))

SpecifiedPipeline(list) ==
    SpecifiedSort(IF preferIndex THEN SpecifiedDrop(list) ELSE list)

\* C18: what the code returns, sorting first and dropping afterwards, is the
\* sequence the specified pipeline gives for the matched files in discovery
\* order: the drop first, then the stable sort.
C18_SortThenFilterRefines ==
    dpc = "done" =>
        /\ Len(srcFiles) = Len(SpecifiedPipeline(fileList))
        /\ \A i \in 1..Len(srcFiles) :
              AbsPath(srcFiles[i]) = SpecifiedPipeline(fileList)[i]

====
